---- MODULE Spec2Model ----
(***************************************************************************)
(* easy-vocab: the catalog of topics, the two persisted progress stores    *)
(* (words to learn, words known), the flashcard and review workflows and   *)
(* the JSON import/export of the review screen.                            *)
(*                                                                         *)
(* Strings that the code trims and lower-cases (words) are sequences of    *)
(* one-character strings; JSON values carry their JavaScript type in a     *)
(* tag t ("absent", "null", "num", "str") next to the value v.             *)
(***************************************************************************)
EXTENDS Integers, Sequences, FiniteSets, TLC

(* ------------------------------ bounds --------------------------------- *)
\* largest value of the clock behind new Date()
MaxClock == 1
\* longest in-memory list on which add still appends a record
MaxItems == 2

(* ------------------------- String.prototype ---------------------------- *)
toLowerCaseChar(c) ==
  CASE c = "C" -> "c"
    [] c = "D" -> "d"
    [] c = "T" -> "t"
    [] OTHER -> c

toLowerCase(w) == [i \in 1..Len(w) |-> toLowerCaseChar(w[i])]

RECURSIVE trimStart(_)
trimStart(w) == IF w # <<>> /\ Head(w) = " " THEN trimStart(Tail(w)) ELSE w

RECURSIVE trimEnd(_)
trimEnd(w) ==
  IF w # <<>> /\ w[Len(w)] = " " THEN trimEnd(SubSeq(w, 1, Len(w) - 1)) ELSE w

trim(w) == trimEnd(trimStart(w))

\* i.word.trim().toLowerCase(), the comparison key of hasItem / hasKnown / remove
normalized(w) == toLowerCase(trim(w))

(* ----------------------------- JSON values ----------------------------- *)
\* a property holding a string (topicId, topic)
NoS == [t |-> "absent", v |-> ""]
NumS == [t |-> "num", v |-> ""]
S(x) == [t |-> "str", v |-> x]
\* the word property
NoW == [t |-> "absent", v |-> <<>>]
NumW == [t |-> "num", v |-> <<>>]
W(x) == [t |-> "str", v |-> x]
\* the addedAt property; the ISO text of clock value n is written T(n)
NoT == [t |-> "absent", v |-> 0]
NullT == [t |-> "null", v |-> 0]
NumT(n) == [t |-> "num", v |-> n]
T(n) == [t |-> "str", v |-> n]

\* an element of a JSON array: a non-object ("abc") or an object
Elem(tid, top, w, at) ==
  [obj |-> TRUE, topicId |-> tid, topic |-> top, word |-> w, addedAt |-> at]
NonObject ==
  [obj |-> FALSE, topicId |-> NoS, topic |-> NoS, word |-> NoW, addedAt |-> NoT]

\* a property of the import document that should hold an array
NoField == [t |-> "absent", v |-> <<>>]
NumField == [t |-> "num", v |-> <<>>]
Arr(a) == [t |-> "array", v |-> a]

\* a whole document: text that does not parse, nothing stored, a scalar,
\* an object (with its learn and known properties) or an array
BadText == [kind |-> "badtext", learn |-> NoField, known |-> NoField, arr |-> <<>>]
NoDoc == [kind |-> "none", learn |-> NoField, known |-> NoField, arr |-> <<>>]
Scalar(k) == [kind |-> k, learn |-> NoField, known |-> NoField, arr |-> <<>>]
Obj(l, k) == [kind |-> "object", learn |-> l, known |-> k, arr |-> <<>>]
ArrDoc(a) == [kind |-> "array", learn |-> NoField, known |-> NoField, arr |-> a]

(* ------------------------------- words --------------------------------- *)
wCat == <<"c", "a", "t">>
wCatU == <<"C", "a", "t">>
wCatPad == <<" ", "C", "a", "t", " ">>
wDog == <<"d", "o", "g">>
wTea == <<"t", "e", "a">>
wDogU == <<"D", "o", "g">>

(* ------------------------- data/topics.ts ------------------------------ *)
\* import.meta.glob('./*/*.json'): path parts and the module's default export,
\* in the order of the keys (the sorted paths)
topicModules ==
  << [typeId |-> "t1", topicSlug |-> "_meta",
      data |-> [topic |-> NoS, vocabsIsArray |-> FALSE, vocabs |-> <<>>]],
     [typeId |-> "t1", topicSlug |-> "animals",
      data |-> [topic |-> S("Animals"), vocabsIsArray |-> TRUE,
                vocabs |-> << [word |-> wCatU], [word |-> wDog] >>]],
     [typeId |-> "t1", topicSlug |-> "broken",
      data |-> [topic |-> NoS, vocabsIsArray |-> TRUE,
                vocabs |-> << [word |-> wTea] >>]],
     [typeId |-> "t2", topicSlug |-> "animals",
      data |-> [topic |-> S("Pets"), vocabsIsArray |-> TRUE,
                vocabs |-> << [word |-> wDog], [word |-> wDogU] >>]],
     [typeId |-> "t2", topicSlug |-> "food",
      data |-> [topic |-> S("Food"), vocabsIsArray |-> TRUE,
                vocabs |-> << [word |-> wTea] >>]],
     [typeId |-> "t2", topicSlug |-> "nolist",
      data |-> [topic |-> S("Drinks"), vocabsIsArray |-> FALSE,
                vocabs |-> <<>>]],
     [typeId |-> "t3", topicSlug |-> "void",
      data |-> [topic |-> NoS, vocabsIsArray |-> TRUE, vocabs |-> <<>>]] >>

\* import.meta.glob('./*/_meta.json'): the types that have a display name
metaName(typeId) == IF typeId = "t1" THEN S("Basics") ELSE NoS

\* humanize(id): dashes to spaces, first letter of every word upper-cased
humanize(id) ==
  CASE id = "t1" -> "T1"
    [] id = "t2" -> "T2"
    [] id = "t3" -> "T3"
    [] OTHER -> id

\* typeMap after the first loop: one VocabType per type, in first-seen order
RECURSIVE typeMap(_, _)
typeMap(ms, seen) ==
  IF ms = <<>> THEN <<>>
  ELSE IF Head(ms).topicSlug # "_meta" /\ Head(ms).typeId \notin seen
       THEN << [id |-> Head(ms).typeId,
                name |-> IF metaName(Head(ms).typeId).t = "str"
                         THEN metaName(Head(ms).typeId).v
                         ELSE humanize(Head(ms).typeId)] >>
              \o typeMap(Tail(ms), seen \cup {Head(ms).typeId})
       ELSE typeMap(Tail(ms), seen)

\* getTypeList()
getTypeList == typeMap(topicModules, {})

\* a key made of the slug alone
topicKeyOf_slugOnly(typeId, topicSlug) == topicSlug

\* `${typeId}/${topicSlug}`
topicKeyOf(typeId, topicSlug) == typeId \o "/" \o topicSlug

\* the skip test without Array.isArray(data?.vocabs)
indexed_noVocabsTest(m) ==
  /\ m.topicSlug # "_meta"
  /\ m.data.topic.t = "str" /\ m.data.topic.v # ""

\* the documents the indexing loop does not skip
indexed(m) ==
  /\ m.topicSlug # "_meta"
  /\ m.data.topic.t = "str" /\ m.data.topic.v # ""
  /\ m.data.vocabsIsArray

TopicMeta(m) ==
  [id |-> m.topicSlug, name |-> m.data.topic.v, typeId |-> m.typeId,
   topicKey |-> topicKeyOf(m.typeId, m.topicSlug)]

RECURSIVE mapMeta(_)
mapMeta(ms) == IF ms = <<>> THEN <<>> ELSE <<TopicMeta(Head(ms))>> \o mapMeta(Tail(ms))

RECURSIVE reverseSeq(_)
reverseSeq(q) == IF q = <<>> THEN <<>> ELSE Append(reverseSeq(Tail(q)), Head(q))

\* the list of a type built with unshift instead of push
topicsByType_unshift(typeId) ==
  reverseSeq(mapMeta(SelectSeq(topicModules, LAMBDA m : indexed(m) /\ m.typeId = typeId)))

\* topicsByType.get(typeId): the metas of one type, in indexing order
topicsByType(typeId) ==
  mapMeta(SelectSeq(topicModules, LAMBDA m : indexed(m) /\ m.typeId = typeId))

\* the keys of topicsByType in insertion order
RECURSIVE typeOrder(_, _)
typeOrder(ms, seen) ==
  IF ms = <<>> THEN <<>>
  ELSE IF indexed(Head(ms)) /\ Head(ms).typeId \notin seen
       THEN <<Head(ms).typeId>> \o typeOrder(Tail(ms), seen \cup {Head(ms).typeId})
       ELSE typeOrder(Tail(ms), seen)

RECURSIVE flatTopics(_)
flatTopics(types) ==
  IF types = <<>> THEN <<>> ELSE topicsByType(Head(types)) \o flatTopics(Tail(types))

\* getTopicList() without a type
getTopicList == flatTopics(typeOrder(topicModules, {}))

\* topicByKey: the last indexed document of a key wins
hasTopicData(topicKey) ==
  \E i \in 1..Len(topicModules) :
    indexed(topicModules[i])
      /\ topicKeyOf(topicModules[i].typeId, topicModules[i].topicSlug) = topicKey

getTopicData(topicKey) ==
  LET hits == {i \in 1..Len(topicModules) :
                 indexed(topicModules[i])
                   /\ topicKeyOf(topicModules[i].typeId, topicModules[i].topicSlug) = topicKey}
      last == CHOOSE i \in hits : \A j \in hits : j <= i
  IN topicModules[last].data

\* topic?.vocabs ?? []
vocabsOf(topicKey) == IF hasTopicData(topicKey) THEN getTopicData(topicKey).vocabs ELSE <<>>

\* the value undefined of getVocabByWord
NoVocab == [found |-> FALSE, entry |-> [word |-> <<>>]]

\* getVocabByWord that compares the words as they are written
getVocabByWord_exact(topicKey, word) ==
  IF ~hasTopicData(topicKey) THEN NoVocab
  ELSE LET vs == getTopicData(topicKey).vocabs
           hits == {i \in 1..Len(vs) : vs[i].word = word}
       IN IF hits = {} THEN NoVocab
          ELSE [found |-> TRUE, entry |-> vs[CHOOSE i \in hits : \A j \in hits : i <= j]]

\* getVocabByWord(topicKey, word)
getVocabByWord(topicKey, word) ==
  IF ~hasTopicData(topicKey) THEN NoVocab
  ELSE LET vs == getTopicData(topicKey).vocabs
           hits == {i \in 1..Len(vs) : normalized(vs[i].word) = normalized(word)}
       IN IF hits = {} THEN NoVocab
          ELSE [found |-> TRUE, entry |-> vs[CHOOSE i \in hits : \A j \in hits : i <= j]]

(* ------------------------ stores: pure parts --------------------------- *)
\* JSON.stringify(items): every record becomes an object of three properties
stringify(items) ==
  [i \in 1..Len(items) |->
     Elem(S(items[i].topicId), NoS, W(items[i].word), items[i].addedAt)]

Range(s) == {s[i] : i \in 1..Len(s)}

\* the filter of loadFromStorage without the test of word
loadable_anyObject(e) == e.obj

\* the element filter of both loadFromStorage functions
loadable(e) == e.obj /\ e.word.t = "str"

\* topics.find((t) => t.name === name)?.topicKey ?? name      (stores/learn)
learn_findTopic(name) ==
  LET topics == getTopicList
      hits == {i \in 1..Len(topics) : topics[i].name = name}
  IN IF hits = {} THEN name
     ELSE topics[CHOOSE i \in hits : \A j \in hits : i <= j].topicKey

\* topics.find((t) => t.name === name)?.id ?? name            (stores/known)
known_findTopic(name) ==
  LET topics == getTopicList
      hits == {i \in 1..Len(topics) : topics[i].name = name}
  IN IF hits = {} THEN name
     ELSE topics[CHOOSE i \in hits : \A j \in hits : i <= j].id

learn_migrate(e, t) ==
  [topicId |-> IF e.topicId.t = "str" THEN e.topicId.v
               ELSE IF e.topic.t = "str" THEN learn_findTopic(e.topic.v)
               ELSE "imported",
   word |-> trim(e.word.v),
   addedAt |-> IF e.addedAt.t = "str" THEN e.addedAt ELSE T(t)]

known_migrate(e, t) ==
  [topicId |-> IF e.topicId.t = "str" THEN e.topicId.v
               ELSE IF e.topic.t = "str" THEN known_findTopic(e.topic.v)
               ELSE "imported",
   word |-> trim(e.word.v),
   addedAt |-> IF e.addedAt.t = "str" THEN e.addedAt ELSE T(t)]

\* loadFromStorage of the learn store: raw is what localStorage holds
learn_loadFromStorage(raw, t) ==
  IF raw.kind # "array" THEN <<>>
  ELSE LET kept == SelectSeq(raw.arr, loadable)
       IN [i \in 1..Len(kept) |-> learn_migrate(kept[i], t)]

\* loadFromStorage of the known store
known_loadFromStorage(raw, t) ==
  IF raw.kind # "array" THEN <<>>
  ELSE LET kept == SelectSeq(raw.arr, loadable)
       IN [i \in 1..Len(kept) |-> known_migrate(kept[i], t)]

\* hasItem that compares the stored word with the argument as given
hasItem_exactWord(items, topicId, word) ==
  \E i \in 1..Len(items) : items[i].topicId = topicId /\ items[i].word = word

\* getter hasItem of the learn store
hasItem(items, topicId, word) ==
  \E i \in 1..Len(items) :
    items[i].topicId = topicId /\ normalized(items[i].word) = normalized(word)

\* getter hasKnown of the known store
hasKnown(items, topicId, word) ==
  \E i \in 1..Len(items) :
    items[i].topicId = topicId /\ normalized(items[i].word) = normalized(word)

\* add without the hasItem guard
learn_add_noGuard(items, topicId, word, t) ==
  Append(items, [topicId |-> topicId, word |-> trim(word), addedAt |-> T(t)])

\* this.items after learn.add
learn_add(items, topicId, word, t) ==
  IF hasItem(items, topicId, word) THEN items
  ELSE Append(items, [topicId |-> topicId, word |-> trim(word), addedAt |-> T(t)])

\* this.items after known.add
known_add(items, topicId, word, t) ==
  IF hasKnown(items, topicId, word) THEN items
  ELSE Append(items, [topicId |-> topicId, word |-> trim(word), addedAt |-> T(t)])

\* remove that compares the stored word with the argument as given
learn_remove_rawWord(items, topicId, word) ==
  SelectSeq(items, LAMBDA i : ~(i.topicId = topicId /\ i.word = word))

\* this.items after learn.remove
learn_remove(items, topicId, word) ==
  SelectSeq(items, LAMBDA i :
    ~(i.topicId = topicId /\ normalized(i.word) = normalized(word)))

\* the filter of replaceAll without the test of topicId
replaceable_wordOnly(e) == e.obj /\ e.word.t = "str"

\* the element filter of both replaceAll actions
replaceable(e) == e.obj /\ e.topicId.t = "str" /\ e.word.t = "str"

\* this.items after learn.replaceAll(arr)
learn_replaceAll(arr, t) ==
  LET rec(e) == [topicId |-> e.topicId.v, word |-> trim(e.word.v),
                 addedAt |-> IF e.addedAt.t \in {"absent", "null"} THEN T(t)
                             ELSE e.addedAt]
      valid == SelectSeq(arr, replaceable)
  IN [i \in 1..Len(valid) |-> rec(valid[i])]

\* replaceAll that stamps every record with the current time
known_replaceAll_restamp(arr, t) ==
  LET rec(e) == [topicId |-> e.topicId.v, word |-> trim(e.word.v), addedAt |-> T(t)]
      valid == SelectSeq(arr, replaceable)
  IN [i \in 1..Len(valid) |-> rec(valid[i])]

\* this.items after known.replaceAll(arr)
known_replaceAll(arr, t) ==
  LET rec(e) == [topicId |-> e.topicId.v, word |-> trim(e.word.v),
                 addedAt |-> IF e.addedAt.t \in {"absent", "null"} THEN T(t)
                             ELSE e.addedAt]
      valid == SelectSeq(arr, replaceable)
  IN [i \in 1..Len(valid) |-> rec(valid[i])]

\* JSON.stringify({ learn: learnStore.all, known: knownStore.all })
exportDoc(learn, known) == Obj(Arr(stringify(learn)), Arr(stringify(known)))

(* ----------------------- composables/useWordImage ----------------------- *)
\* s.charAt(0).toUpperCase()
toUpperCaseChar(c) ==
  CASE c = "c" -> "C"
    [] c = "d" -> "D"
    [] c = "t" -> "T"
    [] OTHER -> c

\* split(/\s+/), capitalise each part, join(' '), of a trimmed word
RECURSIVE titleParts(_, _)
titleParts(s, first) ==
  IF s = <<>> THEN <<>>
  ELSE IF Head(s) = " "
       THEN IF Len(s) > 1 /\ s[2] = " " THEN titleParts(Tail(s), TRUE)
            ELSE <<" ">> \o titleParts(Tail(s), TRUE)
       ELSE <<IF first THEN toUpperCaseChar(Head(s)) ELSE toLowerCaseChar(Head(s))>>
              \o titleParts(Tail(s), FALSE)

wikiTitle(w) == titleParts(trim(w), TRUE)

\* the URLs: '' of an empty word, the picsum placeholder seeded with the word
\* as given, and the thumbnail of the Wikipedia page of a title
NoUrl == [kind |-> "none", of |-> <<>>]
fallbackUrl(w) == [kind |-> "picsum", of |-> w]
thumbnailOf(title) == [kind |-> "wiki", of |-> title]

\* const key = w.trim().toLowerCase()
cacheKey(w) == toLowerCase(trim(w))

(* ------------------------------- state --------------------------------- *)
VARIABLES
  learnItems,        \* useLearnStore().items
  knownItems,        \* useKnownStore().items
  learnStorage,      \* localStorage['easy-vocab-words-to-learn']
  knownStorage,      \* localStorage['easy-vocab-words-known']
  storageWritable,   \* FALSE: localStorage.setItem throws (quota exceeded)
  now,               \* the clock behind new Date()
  route,             \* name of the mounted route: "topics", "flashcard", "review"
  topicKey,          \* Flashcard: typeId/topicSlug of the route, "" when none
  currentTopicId,    \* useVocabStore().currentTopicId, "" for null
  currentIndex,      \* useVocabStore().currentIndex
  customVocabs,      \* useVocabStore().customVocabs: [set, list], set FALSE for null
  onlyNewWords,      \* Flashcard: the "only new words" checkbox
  flipped,           \* the mounted view's flipped ref
  checkResult,       \* the mounted view's checkResult ref
  reviewIndex,       \* Review: currentIndex ref
  importError,       \* Review: importError ref
  watchedWord,       \* useWordImage: the value of the word ref
  imageUrl,          \* useWordImage: the imageUrl ref
  cache,             \* useWordImage: the module's cache, a set of [key, url]
  inFlight,          \* useWordImage: the words whose lookup is awaited
  last               \* history: the operation that ran last and its case

vars == <<learnItems, knownItems, learnStorage, knownStorage, storageWritable,
          now, route, topicKey, currentTopicId, currentIndex, customVocabs,
          onlyNewWords, flipped, checkResult, reviewIndex, importError,
          watchedWord, imageUrl, cache, inFlight, last>>

storeVars == <<learnItems, knownItems, learnStorage, knownStorage>>
vocabVars == <<currentTopicId, currentIndex, customVocabs>>
viewVars == <<route, topicKey, onlyNewWords, flipped, checkResult, reviewIndex>>
importVars == <<importError>>
imageVars == <<watchedWord, imageUrl, cache, inFlight>>

\* an operation other than an import, and the case it ran in
Op(name, case) ==
  [op |-> name, case |-> case, kind |-> "", learn |-> "", known |-> "",
   valid |-> FALSE, backup |-> FALSE]

(* ------------------------------ inputs ---------------------------------- *)
k1 == topicKeyOf("t1", "animals")
k2 == topicKeyOf("t2", "food")

\* elements of imported and persisted arrays
eCat0 == Elem(S(k1), NoS, W(wCat), T(0))
eCatPad == Elem(S(k1), NoS, W(wCatPad), NoT)
eDogNum == Elem(S(k1), NoS, W(wDog), NumT(7))
eTeaNull == Elem(S(k2), NoS, W(wTea), NullT)
eNoTopicId == Elem(NumS, NoS, W(wDog), T(0))
eLegacyAnimals == Elem(NoS, S("Animals"), W(wCatU), NoT)
eLegacyBirds == Elem(NoS, S("Birds"), W(wDog), T(0))
eBare == Elem(NoS, NoS, W(wTea), NumT(7))
eNoWord == Elem(S(k1), NoS, NumW, T(0))

\* the arrays of import documents that stand alone (legacy exports)
ImportArrays ==
  { <<>>, <<NonObject, eNoTopicId>>, <<eCat0, eCatPad>>,
    <<eCatPad, NonObject, eDogNum>> }

\* the learn and known properties of import documents that are objects
LearnField == Arr(<<eNoTopicId, eCatPad, eDogNum>>)
KnownField == Arr(<<eTeaNull, eNoWord, eCat0>>)
ImportObjects ==
  { Obj(NoField, NoField), Obj(NumField, NumField), Obj(NumField, KnownField),
    Obj(LearnField, NoField), Obj(LearnField, KnownField) }

ImportDocs ==
  {BadText, Scalar("null"), Scalar("num"), Scalar("str")}
    \cup {ArrDoc(a) : a \in ImportArrays}
    \cup ImportObjects

\* what localStorage can hold for the two stores when the application starts
StoredProfiles ==
  { <<NoDoc, NoDoc>>,
    <<ArrDoc(<<eLegacyAnimals, eLegacyBirds>>), ArrDoc(<<eLegacyAnimals, eLegacyBirds>>)>> }

AddKeys == {k1}
AddWords == {wCat, wCatPad, wDog}
KnownWords == {wCatPad}
TypedWords == {wCat, wCatPad, wDog, wTea}
\* spellings of the words of the catalog
Spellings == {wCat, wCatU, wCatPad, wDog, wTea}

(* ------------------------------- Init ----------------------------------- *)
\* the refs and store state every behaviour starts with, stores excepted
InitViews ==
  /\ now = 0
  /\ route = "topics"
  /\ topicKey = ""
  /\ currentTopicId = ""
  /\ currentIndex = 0
  /\ customVocabs = [set |-> FALSE, list |-> <<>>]
  /\ onlyNewWords = FALSE
  /\ flipped = FALSE
  /\ checkResult = "idle"
  /\ reviewIndex = 0
  /\ importError = ""
  /\ watchedWord = <<>>
  /\ imageUrl = NoUrl
  /\ cache = {}
  /\ inFlight = <<>>
  /\ last = Op("load", "")

\* state: () => ({ items: loadFromStorage() }) of both stores
Init ==
  /\ \E p \in StoredProfiles : learnStorage = p[1] /\ knownStorage = p[2]
  /\ storageWritable \in BOOLEAN
  /\ InitViews
  /\ learnItems = learn_loadFromStorage(learnStorage, now)
  /\ knownItems = known_loadFromStorage(knownStorage, now)

\* localStorage.setItem(STORAGE_KEY, JSON.stringify(items))
saveToStorage(items) == ArrDoc(stringify(items))

(* --------------------------- store operations --------------------------- *)
Tick ==
  /\ now < MaxClock
  /\ now' = now + 1
  /\ UNCHANGED <<storeVars, storageWritable, imageVars, vocabVars, viewVars, importVars, last>>

\* useLearnStore().add(k, w)
LearnAdd(k, w) ==
  /\ Len(learnItems) < MaxItems \/ hasItem(learnItems, k, w)
  /\ learnItems' = learn_add(learnItems, k, w, now)
  /\ learnStorage' = IF ~hasItem(learnItems, k, w) /\ storageWritable
                     THEN saveToStorage(learnItems') ELSE learnStorage
  /\ last' = Op("learn.add", IF hasItem(learnItems, k, w) THEN "present" ELSE "new")
  /\ UNCHANGED <<knownItems, knownStorage, storageWritable, imageVars, now, vocabVars,
                 viewVars, importVars>>

\* remove that writes localStorage before it filters the list
LearnRemove_saveFirst(k, w) ==
  /\ learnItems' = learn_remove(learnItems, k, w)
  /\ learnStorage' = IF storageWritable THEN saveToStorage(learnItems) ELSE learnStorage
  /\ last' = Op("learn.remove", IF hasItem(learnItems, k, w) THEN "present" ELSE "absent")
  /\ UNCHANGED <<knownItems, knownStorage, storageWritable, imageVars, now, vocabVars,
                 viewVars, importVars>>

\* useLearnStore().remove(k, w)
LearnRemove(k, w) ==
  /\ learnItems' = learn_remove(learnItems, k, w)
  /\ learnStorage' = IF storageWritable THEN saveToStorage(learnItems') ELSE learnStorage
  /\ last' = Op("learn.remove", IF hasItem(learnItems, k, w) THEN "present" ELSE "absent")
  /\ UNCHANGED <<knownItems, knownStorage, storageWritable, imageVars, now, vocabVars,
                 viewVars, importVars>>

\* useLearnStore().clear()
LearnClear ==
  /\ learnItems' = <<>>
  /\ learnStorage' = IF storageWritable THEN saveToStorage(learnItems') ELSE learnStorage
  /\ last' = Op("learn.clear", "")
  /\ UNCHANGED <<knownItems, knownStorage, storageWritable, imageVars, now, vocabVars,
                 viewVars, importVars>>

\* useKnownStore().add(k, w)
KnownAdd(k, w) ==
  /\ Len(knownItems) < MaxItems \/ hasKnown(knownItems, k, w)
  /\ knownItems' = known_add(knownItems, k, w, now)
  /\ knownStorage' = IF ~hasKnown(knownItems, k, w) /\ storageWritable
                     THEN saveToStorage(knownItems') ELSE knownStorage
  /\ last' = Op("known.add", IF hasKnown(knownItems, k, w) THEN "present" ELSE "new")
  /\ UNCHANGED <<learnItems, learnStorage, storageWritable, imageVars, now, vocabVars,
                 viewVars, importVars>>

(* ------------------------- Review: import / export ---------------------- *)
\* exportJson(): the downloaded file is exportDoc(learnItems, knownItems)
ExportJson ==
  /\ last' = Op("export", "")
  /\ UNCHANGED <<storeVars, storageWritable, imageVars, now, vocabVars, viewVars, importVars>>

\* the import that ran last: the shape of the document, whether any element
\* of its arrays passes the filter of replaceAll, whether it is the current export
ImportOp(doc, outcome, isBackup) ==
  [op |-> "import", case |-> outcome, kind |-> doc.kind,
   learn |-> doc.learn.t, known |-> doc.known.t,
   valid |-> \E e \in Range(doc.arr) \cup Range(doc.learn.v) \cup Range(doc.known.v) :
               replaceable(e),
   backup |-> isBackup]

\* parsed && typeof parsed === 'object' && !Array.isArray(parsed)
\*   && ('learn' in parsed || 'known' in parsed)
isBackupObject(doc) ==
  doc.kind = "object" /\ (doc.learn.t # "absent" \/ doc.known.t # "absent")

\* the else branch taken for every value that is not a backup object
callsLearnReplaceAll_anyValue(doc) ==
  \/ isBackupObject(doc) /\ doc.learn.t = "array"
  \/ ~isBackupObject(doc)

\* the branches of onFileSelected that call learnStore.replaceAll
callsLearnReplaceAll(doc) ==
  \/ isBackupObject(doc) /\ doc.learn.t = "array"
  \/ ~isBackupObject(doc) /\ doc.kind = "array"

\* knownStore.replaceAll called without the Array.isArray test
callsKnownReplaceAll_anyField(doc) == isBackupObject(doc)

\* knownStore.replaceAll called for a legacy array as well
callsKnownReplaceAll_legacy(doc) ==
  \/ isBackupObject(doc) /\ doc.known.t = "array"
  \/ doc.kind = "array"

\* the branch of onFileSelected that calls knownStore.replaceAll
callsKnownReplaceAll(doc) == isBackupObject(doc) /\ doc.known.t = "array"

\* triggerImport() and onFileSelected(e) with reader.onload, for a file whose
\* text parses to doc; a throwing setItem is caught with the parse errors
onFileSelected(doc) ==
  LET parsed == doc.kind # "badtext"
      callLearn == parsed /\ callsLearnReplaceAll(doc)
      learnArg == IF isBackupObject(doc) THEN doc.learn.v ELSE doc.arr
      learnThrew == callLearn /\ ~storageWritable
      callKnown == parsed /\ callsKnownReplaceAll(doc) /\ ~learnThrew
      knownThrew == callKnown /\ ~storageWritable
      outcome == IF ~parsed \/ learnThrew \/ knownThrew THEN "error"
                 ELSE IF ~isBackupObject(doc) /\ doc.kind # "array" THEN "invalid"
                 ELSE "imported"
  IN /\ learnItems' = IF callLearn THEN learn_replaceAll(learnArg, now) ELSE learnItems
     /\ learnStorage' = IF callLearn /\ storageWritable
                        THEN saveToStorage(learnItems') ELSE learnStorage
     /\ knownItems' = IF callKnown THEN known_replaceAll(doc.known.v, now) ELSE knownItems
     /\ knownStorage' = IF callKnown /\ storageWritable
                        THEN saveToStorage(knownItems') ELSE knownStorage
     /\ importError' = CASE outcome = "error" -> "err.message"
                         [] outcome = "invalid" -> "Invalid format"
                         [] OTHER -> ""
     /\ last' = ImportOp(doc, outcome, doc = exportDoc(learnItems, knownItems))
     /\ UNCHANGED <<storageWritable, imageVars, now, vocabVars, viewVars>>

(* ------------------- stores and transcoder, any call order -------------- *)
Next ==
  \/ Tick
  \/ \E k \in AddKeys, w \in AddWords : LearnAdd(k, w)
  \/ \E k \in AddKeys, w \in AddWords : LearnRemove(k, w)
  \/ LearnClear
  \/ \E k \in AddKeys, w \in KnownWords : KnownAdd(k, w)
  \/ ExportJson
  \/ \E doc \in ImportDocs \cup {exportDoc(learnItems, knownItems)} : onFileSelected(doc)

Spec == Init /\ [][Next]_vars

(* ----------------------------- stores/vocab ----------------------------- *)
\* getter currentVocabs
currentVocabs ==
  IF customVocabs.set THEN customVocabs.list
  ELSE IF currentTopicId # "" THEN vocabsOf(currentTopicId) ELSE <<>>

\* getter currentWord is defined (vocabs[currentIndex], indices from 0)
hasCurrentWord == currentIndex < Len(currentVocabs)
currentWord == currentVocabs[currentIndex + 1]
hasNext == currentIndex < Len(currentVocabs) - 1
hasPrev == currentIndex > 0

\* setFilterOnlyNew that looks at the known store only
setFilterOnlyNew_knownOnly(onlyNew) ==
  IF onlyNew
  THEN [set |-> TRUE,
        list |-> SelectSeq(vocabsOf(currentTopicId), LAMBDA v :
                   ~hasKnown(knownItems, currentTopicId, v.word))]
  ELSE [set |-> FALSE, list |-> <<>>]

\* customVocabs after setFilterOnlyNew(onlyNew), called with a topic set
setFilterOnlyNew(onlyNew) ==
  IF onlyNew
  THEN [set |-> TRUE,
        list |-> SelectSeq(vocabsOf(currentTopicId), LAMBDA v :
                   ~hasItem(learnItems, currentTopicId, v.word)
                     /\ ~hasKnown(knownItems, currentTopicId, v.word))]
  ELSE [set |-> FALSE, list |-> <<>>]

(* ------------------------------ navigation ------------------------------ *)
\* the mounted view is left for the topic list; its refs go with it
LeaveToTopics ==
  /\ route' = "topics"
  /\ topicKey' = ""
  /\ onlyNewWords' = FALSE
  /\ flipped' = FALSE
  /\ checkResult' = "idle"
  /\ reviewIndex' = 0
  /\ importError' = ""

RouteParams == {<<"t1", "animals">>, <<"t2", "food">>, <<"t1", "broken">>}

\* router.push({ name: 'flashcard' }) and the mount of Flashcard (initTopic)
startTopic(typeId, topicSlug) ==
  LET key == topicKeyOf(typeId, topicSlug)
  IN /\ route = "topics"
     /\ IF hasTopicData(key)
        THEN /\ route' = "flashcard"
             /\ topicKey' = key
             /\ currentTopicId' = key
             /\ customVocabs' = [set |-> FALSE, list |-> <<>>]
             /\ currentIndex' = 0
             /\ last' = Op("startTopic", "mounted")
        ELSE /\ UNCHANGED <<route, topicKey, vocabVars>>
             /\ last' = Op("startTopic", "redirected")
     /\ UNCHANGED <<storeVars, storageWritable, imageVars, now, onlyNewWords, flipped,
                    checkResult, reviewIndex, importVars>>

\* router.push({ name: 'review' }) and the mount of Review (onMounted)
goReview ==
  /\ route = "topics"
  /\ IF Len(learnItems) = 0
     THEN UNCHANGED route /\ last' = Op("goReview", "redirected")
     ELSE route' = "review" /\ last' = Op("goReview", "mounted")
  /\ UNCHANGED <<storeVars, storageWritable, imageVars, now, vocabVars, topicKey, onlyNewWords,
                 flipped, checkResult, reviewIndex, importVars>>

\* backToTopics() of Flashcard and of Review
backToTopics ==
  /\ route \in {"flashcard", "review"}
  /\ LeaveToTopics
  /\ last' = Op("backToTopics", "")
  /\ UNCHANGED <<storeVars, storageWritable, imageVars, now, vocabVars>>

(* ------------------------------ TopicList ------------------------------- *)
\* isTopicFullyKnown(topicId)
isTopicFullyKnown(topicId) ==
  /\ hasTopicData(topicId)
  /\ Len(getTopicData(topicId).vocabs) # 0
  /\ \A v \in Range(getTopicData(topicId).vocabs) : hasKnown(knownItems, topicId, v.word)

\* template: the row of topic t is styled by isTopicFullyKnown(t.id)
rowFullyKnown(t) == isTopicFullyKnown(t.id)

\* topicTotal(topicId): getTopicData(topicId)?.vocabs.length ?? 0
topicTotal(topicId) ==
  IF hasTopicData(topicId) THEN Len(getTopicData(topicId).vocabs) ELSE 0

\* topicKnownCount(topicId)
topicKnownCount(topicId) ==
  Cardinality({i \in 1..Len(knownItems) : knownItems[i].topicId = topicId})

\* template: {{ topicTotal(t.id) }}, {{ topicKnownCount(t.id) }} known,
\* {{ topicTotal(t.id) - topicKnownCount(t.id) }} not known
rowTotal(t) == topicTotal(t.id)
rowKnownCount(t) == topicKnownCount(t.id)
rowNotKnown(t) == topicTotal(t.id) - topicKnownCount(t.id)

\* clearAllData(), confirmed: learnStore.clear() runs; knownStore.clear is not
\* a function of the known store, so the call throws a TypeError
clearAllData ==
  /\ route = "topics"
  /\ learnItems' = <<>>
  /\ learnStorage' = IF storageWritable THEN saveToStorage(learnItems') ELSE learnStorage
  /\ last' = Op("clearAllData", "threw")
  /\ UNCHANGED <<knownItems, knownStorage, storageWritable, imageVars, now, vocabVars,
                 viewVars, importVars>>

(* ------------------------------ Flashcard ------------------------------- *)
\* computed filteredCount
filteredCount ==
  IF topicKey = "" \/ ~hasTopicData(topicKey) THEN 0
  ELSE Len(SelectSeq(vocabsOf(topicKey), LAMBDA v :
             ~hasItem(learnItems, topicKey, v.word)
               /\ ~hasKnown(knownItems, topicKey, v.word)))

\* computed hasNoNewWords
hasNoNewWords == onlyNewWords /\ Len(vocabsOf(topicKey)) > 0 /\ filteredCount = 0

\* template: <main v-else-if="currentWord"> is rendered
cardShown == route = "flashcard" /\ ~hasNoNewWords /\ hasCurrentWord

Flashcard_toggleFlip ==
  /\ cardShown
  /\ flipped' = ~flipped
  /\ last' = Op("toggleFlip", "")
  /\ UNCHANGED <<storeVars, storageWritable, imageVars, now, vocabVars, route, topicKey,
                 onlyNewWords, checkResult, reviewIndex, importVars>>

\* the checkbox (v-model) or "Show all words", then applyOnlyNewFilter()
applyOnlyNewFilter ==
  /\ route = "flashcard"
  /\ onlyNewWords' = ~onlyNewWords
  /\ customVocabs' = setFilterOnlyNew(onlyNewWords')
  /\ currentIndex' = 0
  /\ flipped' = FALSE
  /\ checkResult' = "idle"
  /\ last' = Op("applyOnlyNewFilter", IF onlyNewWords' THEN "on" ELSE "off")
  /\ UNCHANGED <<storeVars, storageWritable, imageVars, now, currentTopicId, route, topicKey,
                 reviewIndex, importVars>>

\* goNext(): vocabStore.nextWord() and the watch on currentIndex, or leave
goNextEffect ==
  IF hasNext
  THEN /\ currentIndex' = currentIndex + 1
       /\ flipped' = FALSE
       /\ checkResult' = "idle"
       /\ UNCHANGED <<route, topicKey, onlyNewWords, reviewIndex, importVars>>
  ELSE LeaveToTopics /\ UNCHANGED currentIndex

goNext ==
  /\ cardShown /\ flipped /\ checkResult # "idle"
  /\ goNextEffect
  /\ last' = Op("goNext", IF hasNext THEN "next" ELSE "left")
  /\ UNCHANGED <<storeVars, storageWritable, imageVars, now, currentTopicId, customVocabs>>

goPrev ==
  /\ cardShown /\ flipped /\ hasPrev
  /\ currentIndex' = currentIndex - 1
  /\ flipped' = FALSE
  /\ checkResult' = "idle"
  /\ last' = Op("goPrev", "")
  /\ UNCHANGED <<storeVars, storageWritable, imageVars, now, currentTopicId, customVocabs,
                 route, topicKey, onlyNewWords, reviewIndex, importVars>>

\* markKnown that takes the only-new list again from the changed stores
markKnown_refilter ==
  LET w == currentWord.word
      addThrew == ~hasKnown(knownItems, topicKey, w) /\ ~storageWritable
  IN /\ cardShown /\ flipped
     /\ knownItems' = known_add(knownItems, topicKey, w, now)
     /\ knownStorage' = IF ~hasKnown(knownItems, topicKey, w) /\ storageWritable
                        THEN saveToStorage(knownItems') ELSE knownStorage
     /\ learnItems' = IF addThrew THEN learnItems ELSE learn_remove(learnItems, topicKey, w)
     /\ learnStorage' = IF storageWritable THEN saveToStorage(learnItems') ELSE learnStorage
     /\ IF storageWritable
        THEN goNextEffect
        ELSE UNCHANGED <<currentIndex, viewVars, importVars>>
     /\ customVocabs' =
          IF customVocabs.set
          THEN [set |-> TRUE,
                list |-> SelectSeq(vocabsOf(currentTopicId), LAMBDA v :
                           ~hasItem(learnItems', currentTopicId, v.word)
                             /\ ~hasKnown(knownItems', currentTopicId, v.word))]
          ELSE customVocabs
     /\ last' = Op("markKnown", IF storageWritable THEN "done" ELSE "threw")
     /\ UNCHANGED <<storageWritable, imageVars, now, currentTopicId>>

\* markKnown(): a throwing setItem ends the handler where it throws
markKnown ==
  LET w == currentWord.word
      addThrew == ~hasKnown(knownItems, topicKey, w) /\ ~storageWritable
  IN /\ cardShown /\ flipped
     /\ knownItems' = known_add(knownItems, topicKey, w, now)
     /\ knownStorage' = IF ~hasKnown(knownItems, topicKey, w) /\ storageWritable
                        THEN saveToStorage(knownItems') ELSE knownStorage
     /\ learnItems' = IF addThrew THEN learnItems ELSE learn_remove(learnItems, topicKey, w)
     /\ learnStorage' = IF storageWritable THEN saveToStorage(learnItems') ELSE learnStorage
     /\ IF storageWritable
        THEN goNextEffect
        ELSE UNCHANGED <<currentIndex, viewVars, importVars>>
     /\ last' = Op("markKnown", IF storageWritable THEN "done" ELSE "threw")
     /\ UNCHANGED <<storageWritable, imageVars, now, currentTopicId, customVocabs>>

\* checkTyped that adds the word whatever was typed
Flashcard_checkTyped_addAlways(typed) ==
  LET w == currentWord.word
      correct == normalized(typed) = normalized(w)
  IN /\ cardShown /\ flipped /\ checkResult = "idle"
     /\ checkResult' = IF correct THEN "correct" ELSE "wrong"
     /\ learnItems' = learn_add(learnItems, topicKey, w, now)
     /\ learnStorage' = IF ~hasItem(learnItems, topicKey, w) /\ storageWritable
                        THEN saveToStorage(learnItems') ELSE learnStorage
     /\ last' = Op("checkTyped", IF correct THEN "correct" ELSE "wrong")
     /\ UNCHANGED <<knownItems, knownStorage, storageWritable, imageVars, now, vocabVars, route,
                    topicKey, onlyNewWords, flipped, reviewIndex, importVars>>

\* checkTyped() of Flashcard, typedAnswer being typed
Flashcard_checkTyped(typed) ==
  LET w == currentWord.word
      correct == normalized(typed) = normalized(w)
  IN /\ cardShown /\ flipped /\ checkResult = "idle"
     /\ checkResult' = IF correct THEN "correct" ELSE "wrong"
     /\ learnItems' = IF correct THEN learn_add(learnItems, topicKey, w, now) ELSE learnItems
     /\ learnStorage' = IF correct /\ ~hasItem(learnItems, topicKey, w) /\ storageWritable
                        THEN saveToStorage(learnItems') ELSE learnStorage
     /\ last' = Op("checkTyped", IF correct THEN "correct" ELSE "wrong")
     /\ UNCHANGED <<knownItems, knownStorage, storageWritable, imageVars, now, vocabVars, route,
                    topicKey, onlyNewWords, flipped, reviewIndex, importVars>>

(* -------------------------------- Review -------------------------------- *)
\* template: <main v-if="currentItem && currentDisplay"> is rendered
itemShown == route = "review" /\ reviewIndex < Len(learnItems)
currentItem == learnItems[reviewIndex + 1]

\* computed currentDisplay, for a current item: the vocab shown on the card
currentDisplay ==
  [word |-> currentItem.word,
   vocab |-> getVocabByWord(currentItem.topicId, currentItem.word)]

Review_toggleFlip ==
  /\ itemShown
  /\ flipped' = ~flipped
  /\ last' = Op("review.toggleFlip", "")
  /\ UNCHANGED <<storeVars, storageWritable, imageVars, now, vocabVars, route, topicKey,
                 onlyNewWords, checkResult, reviewIndex, importVars>>

Review_checkTyped(typed) ==
  /\ itemShown /\ flipped /\ checkResult = "idle"
  /\ checkResult' = IF normalized(typed) = normalized(currentItem.word)
                    THEN "correct" ELSE "wrong"
  /\ last' = Op("review.checkTyped", checkResult')
  /\ UNCHANGED <<storeVars, storageWritable, imageVars, now, vocabVars, route, topicKey,
                 onlyNewWords, flipped, reviewIndex, importVars>>

Review_nextWord ==
  /\ itemShown /\ flipped /\ checkResult # "idle"
  /\ IF reviewIndex < Len(learnItems) - 1
     THEN /\ reviewIndex' = reviewIndex + 1
          /\ flipped' = FALSE
          /\ checkResult' = "idle"
          /\ UNCHANGED <<route, topicKey, onlyNewWords, importVars>>
     ELSE LeaveToTopics
  /\ last' = Op("review.nextWord", "")
  /\ UNCHANGED <<storeVars, storageWritable, imageVars, now, vocabVars>>

Review_prevWord ==
  /\ itemShown /\ reviewIndex > 0
  /\ reviewIndex' = reviewIndex - 1
  /\ flipped' = FALSE
  /\ checkResult' = "idle"
  /\ last' = Op("review.prevWord", "")
  /\ UNCHANGED <<storeVars, storageWritable, imageVars, now, vocabVars, route, topicKey,
                 onlyNewWords, importVars>>

\* removeCurrent(): a throwing setItem ends the handler where it throws
removeCurrent ==
  LET k == currentItem.topicId
      w == currentItem.word
      addThrew == ~hasKnown(knownItems, k, w) /\ ~storageWritable
  IN /\ itemShown /\ flipped
     /\ knownItems' = known_add(knownItems, k, w, now)
     /\ knownStorage' = IF ~hasKnown(knownItems, k, w) /\ storageWritable
                        THEN saveToStorage(knownItems') ELSE knownStorage
     /\ learnItems' = IF addThrew THEN learnItems ELSE learn_remove(learnItems, k, w)
     /\ learnStorage' = IF storageWritable THEN saveToStorage(learnItems') ELSE learnStorage
     /\ IF ~storageWritable THEN UNCHANGED <<viewVars, importVars>>
        ELSE IF Len(learnItems') = 0 THEN LeaveToTopics
        ELSE /\ reviewIndex' = IF reviewIndex >= Len(learnItems')
                               THEN Len(learnItems') - 1 ELSE reviewIndex
             /\ flipped' = FALSE
             /\ checkResult' = "idle"
             /\ UNCHANGED <<route, topicKey, onlyNewWords, importVars>>
     /\ last' = Op("removeCurrent", IF storageWritable THEN "done" ELSE "threw")
     /\ UNCHANGED <<storageWritable, imageVars, now, vocabVars>>

(* --------------------------- learner workflow --------------------------- *)
eDog0 == Elem(S(k1), NoS, W(wDog), T(0))

\* persisted stores that share no pair
FlowProfiles == { <<NoDoc, NoDoc>>, <<ArrDoc(<<eDog0>>), ArrDoc(<<eTeaNull>>)>> }

\* the workflow with a localStorage that accepts every write
InitFlow ==
  /\ \E p \in FlowProfiles : learnStorage = p[1] /\ knownStorage = p[2]
  /\ storageWritable = TRUE
  /\ InitViews
  /\ learnItems = learn_loadFromStorage(learnStorage, now)
  /\ knownItems = known_loadFromStorage(knownStorage, now)

NextFlow ==
  \/ \E p \in RouteParams : startTopic(p[1], p[2])
  \/ goReview
  \/ backToTopics
  \/ clearAllData
  \/ Flashcard_toggleFlip
  \/ applyOnlyNewFilter
  \/ goNext
  \/ goPrev
  \/ markKnown
  \/ \E typed \in TypedWords : Flashcard_checkTyped(typed)
  \/ Review_toggleFlip
  \/ \E typed \in TypedWords : Review_checkTyped(typed)
  \/ Review_nextWord
  \/ Review_prevWord
  \/ removeCurrent

SpecFlow == InitFlow /\ [][NextFlow]_vars

\* the workflow with a localStorage whose setItem throws (quota exceeded)
InitQuota ==
  /\ \E p \in FlowProfiles : learnStorage = p[1] /\ knownStorage = p[2]
  /\ storageWritable = FALSE
  /\ InitViews
  /\ learnItems = learn_loadFromStorage(learnStorage, now)
  /\ knownItems = known_loadFromStorage(knownStorage, now)

SpecQuota == InitQuota /\ [][NextFlow]_vars

(* ------------------------------ page load ------------------------------- *)
eBoth == Elem(S(k2), S("Animals"), W(wTea), T(0))

\* what a store's localStorage key can hold when the page is loaded
LoadDocs ==
  { NoDoc, BadText, Scalar("num"), Obj(NoField, NoField),
    ArrDoc(<<NonObject, eNoWord, eBare, eLegacyAnimals>>),
    ArrDoc(<<eLegacyBirds, eBoth, eDogNum, eTeaNull>>) }

InitLoad ==
  /\ learnStorage \in LoadDocs
  /\ knownStorage \in LoadDocs
  /\ storageWritable = TRUE
  /\ InitViews
  /\ learnItems = learn_loadFromStorage(learnStorage, now)
  /\ knownItems = known_loadFromStorage(knownStorage, now)

\* the page is loaded again: both stores are created from localStorage
Reload ==
  /\ learnItems' = learn_loadFromStorage(learnStorage, now)
  /\ knownItems' = known_loadFromStorage(knownStorage, now)
  /\ route' = "topics"
  /\ topicKey' = ""
  /\ currentTopicId' = ""
  /\ currentIndex' = 0
  /\ customVocabs' = [set |-> FALSE, list |-> <<>>]
  /\ onlyNewWords' = FALSE
  /\ flipped' = FALSE
  /\ checkResult' = "idle"
  /\ reviewIndex' = 0
  /\ importError' = ""
  /\ last' = Op("load", "")
  /\ UNCHANGED <<learnStorage, knownStorage, storageWritable, imageVars, now>>

NextLoad ==
  \/ Tick
  \/ Reload
  \/ \E k \in AddKeys, w \in AddWords : LearnAdd(k, w)
  \/ \E k \in AddKeys, w \in AddWords : LearnRemove(k, w)
  \/ LearnClear
  \/ \E k \in AddKeys, w \in KnownWords : KnownAdd(k, w)

SpecLoad == InitLoad /\ [][NextLoad]_vars

(* ------------------- the review screen with its import ------------------ *)
\* files chosen on the review screen: text that does not parse, an empty
\* list, a list of one record, and a backup whose learn list holds a record
\* with a numeric addedAt and whose known list holds one pair twice
ReviewDocs ==
  { BadText, ArrDoc(<<>>), ArrDoc(<<eCat0>>),
    Obj(Arr(<<eDogNum, eCat0>>), Arr(<<eTeaNull, eTeaNull>>)) }

\* a persisted ToLearn of two records and no Known
ReviewProfiles == { <<ArrDoc(<<eCat0, eDog0>>), NoDoc>> }

InitReview ==
  /\ \E p \in ReviewProfiles : learnStorage = p[1] /\ knownStorage = p[2]
  /\ storageWritable = TRUE
  /\ InitViews
  /\ learnItems = learn_loadFromStorage(learnStorage, now)
  /\ knownItems = known_loadFromStorage(knownStorage, now)

\* the file input of the mounted Review view: @change="onFileSelected"
Review_onFileSelected(doc) ==
  /\ route = "review"
  /\ onFileSelected(doc)

NextReview ==
  \/ Tick
  \/ Reload
  \/ goReview
  \/ backToTopics
  \/ Review_toggleFlip
  \/ \E typed \in {wCat, wTea} : Review_checkTyped(typed)
  \/ Review_nextWord
  \/ Review_prevWord
  \/ removeCurrent
  \/ \E doc \in ReviewDocs : Review_onFileSelected(doc)

SpecReview == InitReview /\ [][NextReview]_vars

(* ------------- the actions of the vocab store, any call order ----------- *)
\* setTopic(topicId)
setTopic(topicId) ==
  /\ currentTopicId' = topicId
  /\ customVocabs' = [set |-> FALSE, list |-> <<>>]
  /\ currentIndex' = 0
  /\ last' = Op("vocab.setTopic", topicId)
  /\ UNCHANGED <<storeVars, storageWritable, imageVars, now, viewVars, importVars>>

\* setFilterOnlyNew(onlyNew): returns at once without a current topic
Vocab_setFilterOnlyNew(onlyNew) ==
  /\ IF currentTopicId = ""
     THEN UNCHANGED <<customVocabs, currentIndex>>
     ELSE /\ customVocabs' = setFilterOnlyNew(onlyNew)
          /\ currentIndex' = 0
  /\ last' = Op("vocab.setFilterOnlyNew", IF onlyNew THEN "on" ELSE "off")
  /\ UNCHANGED <<storeVars, storageWritable, imageVars, now, currentTopicId, viewVars, importVars>>

\* nextWord()
nextWord ==
  /\ currentIndex' = IF hasNext THEN currentIndex + 1 ELSE currentIndex
  /\ last' = Op("vocab.nextWord", "")
  /\ UNCHANGED <<storeVars, storageWritable, imageVars, now, currentTopicId, customVocabs,
                 viewVars, importVars>>

\* prevWord()
prevWord ==
  /\ currentIndex' = IF hasPrev THEN currentIndex - 1 ELSE currentIndex
  /\ last' = Op("vocab.prevWord", "")
  /\ UNCHANGED <<storeVars, storageWritable, imageVars, now, currentTopicId, customVocabs,
                 viewVars, importVars>>

\* goToIndex(index): Math.max(0, Math.min(index, total - 1))
goToIndex(index) ==
  LET total == Len(currentVocabs)
      least == IF index < total - 1 THEN index ELSE total - 1
  IN /\ currentIndex' = IF least > 0 THEN least ELSE 0
     /\ last' = Op("vocab.goToIndex", "")
     /\ UNCHANGED <<storeVars, storageWritable, imageVars, now, currentTopicId, customVocabs,
                    viewVars, importVars>>

\* reset(): customVocabs is not assigned
reset ==
  /\ currentTopicId' = ""
  /\ currentIndex' = 0
  /\ last' = Op("vocab.reset", "")
  /\ UNCHANGED <<storeVars, storageWritable, imageVars, now, customVocabs, viewVars, importVars>>

\* the arguments of setTopic and of goToIndex
TopicIds == {k1, k2, topicKeyOf("t1", "broken")}
Indexes == {-1, 0, 1, 2}

NextVocab ==
  \/ \E topicId \in TopicIds : setTopic(topicId)
  \/ \E onlyNew \in BOOLEAN : Vocab_setFilterOnlyNew(onlyNew)
  \/ nextWord
  \/ prevWord
  \/ \E index \in Indexes : goToIndex(index)
  \/ reset
  \/ \E k \in AddKeys, w \in AddWords : LearnAdd(k, w)
  \/ \E k \in AddKeys, w \in KnownWords : KnownAdd(k, w)

SpecVocab == InitFlow /\ [][NextVocab]_vars

(* --------------- one useWordImage over a word that changes -------------- *)
\* at most this many lookups are awaited at a time
MaxInFlight == 2

\* the values the word ref takes
ImageWords == {<<>>, <<" ">>, wCat, wCatU, wCatPad, wDog}

cacheHas(key) == \E c \in cache : c.key = key
cacheGet(key) == (CHOOSE c \in cache : c.key = key).url
cacheSet(key, url) == {c \in cache : c.key # key} \cup {[key |-> key, url |-> url]}

\* watch(word, (w) => updateImage(w ?? '')): updateImage up to its await
watchWord(w) ==
  /\ w # watchedWord
  /\ watchedWord' = w
  /\ IF trim(w) = <<>>
     THEN /\ imageUrl' = NoUrl
          /\ UNCHANGED inFlight
          /\ last' = Op("image.watch", "empty")
     ELSE IF cacheHas(cacheKey(w))
     THEN /\ imageUrl' = cacheGet(cacheKey(w))
          /\ UNCHANGED inFlight
          /\ last' = Op("image.watch", "cached")
     ELSE /\ Len(inFlight) < MaxInFlight
          /\ imageUrl' = fallbackUrl(w)
          /\ inFlight' = Append(inFlight, w)
          /\ last' = Op("image.watch", "lookup")
  /\ UNCHANGED <<storeVars, storageWritable, now, vocabVars, viewVars, importVars, cache>>

\* updateImage(w) after its await: fetchWikipediaImage(w) gave a thumbnail
\* (found) or null (no page image, or the request failed)
lookupDone(i, found) ==
  LET w == inFlight[i]
  IN /\ i <= Len(inFlight)
     /\ inFlight' = SubSeq(inFlight, 1, i - 1) \o SubSeq(inFlight, i + 1, Len(inFlight))
     /\ IF found
        THEN /\ cache' = cacheSet(cacheKey(w), thumbnailOf(wikiTitle(w)))
             /\ imageUrl' = thumbnailOf(wikiTitle(w))
        ELSE UNCHANGED <<cache, imageUrl>>
     /\ last' = Op("image.done", IF found THEN "found" ELSE "null")
     /\ UNCHANGED <<storeVars, storageWritable, now, vocabVars, viewVars, importVars,
                    watchedWord>>

NextImage ==
  \/ \E w \in ImageWords : watchWord(w)
  \/ \E i \in 1..MaxInFlight, found \in BOOLEAN : lookupDone(i, found)

SpecImage == InitFlow /\ [][NextImage]_vars

(* ============================== properties ============================== *)
sameIdentity(a, b) ==
  a.topicId = b.topicId /\ normalized(a.word) = normalized(b.word)

\* C1: in every reachable state of the two stores no two records of one store
\* share the identity (topicKey, word trimmed and lower-cased).
C1_NoDuplicateIdentity ==
  /\ \A i, j \in 1..Len(learnItems) : i # j => ~sameIdentity(learnItems[i], learnItems[j])
  /\ \A i, j \in 1..Len(knownItems) : i # j => ~sameIdentity(knownItems[i], knownItems[j])

\* C2: under learner workflow actions only, starting from stores that share no
\* pair, no pair is in both Known and ToLearn once an action has completed.
C2_NeverInBothStores ==
  \A i \in 1..Len(learnItems), j \in 1..Len(knownItems) :
    ~sameIdentity(learnItems[i], knownItems[j])

\* C3: importing an array with elements of which none validates as a record
\* fails with "Invalid format" and leaves both stores as they were (stated
\* for a localStorage that accepts every write).
C3_InvalidArrayRejected ==
  [][\A doc \in ImportDocs :
       (/\ storageWritable
        /\ doc.kind = "array" /\ doc.arr # <<>>
        /\ \A e \in Range(doc.arr) : ~replaceable(e)
        /\ onFileSelected(doc))
       => /\ importError' = "Invalid format"
          /\ UNCHANGED storeVars]_vars

\* C4: an import whose text does not parse, or whose value is neither an
\* object with a learn or known key nor an array, reports an error and changes
\* neither store, in memory or in localStorage.
C4_RejectedImportChangesNothing ==
  [][(/\ last'.op = "import"
      /\ \/ last'.kind \in {"badtext", "null", "num", "str"}
         \/ last'.kind = "object" /\ last'.learn = "absent" /\ last'.known = "absent")
     => /\ importError' # ""
        /\ UNCHANGED storeVars]_vars

C4_Witness ==
  /\ last.op = "import" /\ last.case = "invalid" /\ last.kind = "object"
  /\ importError = "Invalid format"
  /\ learnItems # <<>> /\ knownItems # <<>>

\* C5: importing an object document leaves ToLearn untouched unless its learn
\* field is an array, and Known untouched unless its known field is an array.
C5_PartialImportFrame ==
  [][(last'.op = "import" /\ last'.kind = "object")
     => /\ last'.learn # "array" =>
             learnItems' = learnItems /\ learnStorage' = learnStorage
        /\ last'.known # "array" =>
             knownItems' = knownItems /\ knownStorage' = knownStorage]_vars

C5_Witness ==
  /\ last.op = "import" /\ last.kind = "object" /\ last.case = "imported"
  /\ last.learn = "num" /\ last.known = "array"
  /\ learnItems # <<>> /\ knownItems # <<>>

\* C6: importing a document that is itself an array replaces ToLearn only;
\* Known is the same before and after, in memory and in localStorage.
C6_LegacyArrayLeavesKnown ==
  [][(last'.op = "import" /\ last'.kind = "array")
     => \A doc \in ImportDocs :
          (doc.kind = "array" /\ onFileSelected(doc))
          => /\ knownItems' = knownItems /\ knownStorage' = knownStorage
             /\ Len(learnItems') <= Len(doc.arr)
             /\ \A i \in 1..Len(learnItems') :
                  \E j \in 1..Len(doc.arr) :
                    /\ doc.arr[j].topicId = S(learnItems'[i].topicId)
                    /\ doc.arr[j].word.t = "str"
                    /\ trim(doc.arr[j].word.v) = learnItems'[i].word]_vars

C6_Witness ==
  /\ last.op = "import" /\ last.kind = "array" /\ last.valid /\ last.case = "imported"
  /\ learnItems # <<>> /\ knownItems # <<>>

\* C7: exporting and then importing the exported document yields stores with
\* the same records in the same order, each with the same topicKey, word and
\* addedAt.
C7_ExportImportRoundTrip ==
  [][(last'.op = "import" /\ onFileSelected(exportDoc(learnItems, knownItems)))
     => learnItems' = learnItems /\ knownItems' = knownItems]_vars

C7_Witness ==
  /\ last.op = "import" /\ last.backup /\ last.case = "imported"
  /\ \E i \in 1..Len(learnItems) : learnItems[i].addedAt # T(now)
  /\ \E i \in 1..Len(knownItems) : knownItems[i].addedAt # T(now)

\* C8: at load time, in both stores, a persisted record with a string word, no
\* topic-key field and a legacy topic name gets the composite topicKey of the
\* catalog topic of exactly that name, and keeps the name when there is none.
C8_LegacyTopicResolved ==
  LET resolved(name) ==
        IF \E i \in 1..Len(getTopicList) : getTopicList[i].name = name
        THEN LET m == CHOOSE m \in Range(getTopicList) : m.name = name
             IN topicKeyOf(m.typeId, m.id)
        ELSE name
      legacy(e) == e.topicId.t # "str" /\ e.topic.t = "str"
      migrated(raw, items) ==
        (raw.kind = "array" /\ \A e \in Range(raw.arr) : loadable(e))
          => \A i \in 1..Len(raw.arr) :
               legacy(raw.arr[i]) => items[i].topicId = resolved(raw.arr[i].topic.v)
  IN last.op = "load" => /\ migrated(learnStorage, learnItems)
                         /\ migrated(knownStorage, knownItems)

\* C9: add applied twice leaves a store with the same records in the same order
\* as add applied once, and add of a pair that has() reports changes nothing.
C9_AddIdempotent ==
  [][/\ last'.op = "learn.add" =>
          \A k \in AddKeys, w \in AddWords :
            learnItems' = learn_add(learnItems, k, w, now)
            => /\ \A t \in 0..MaxClock : learn_add(learnItems', k, w, t) = learnItems'
               /\ hasItem(learnItems, k, w)
                    => learnItems' = learnItems /\ learnStorage' = learnStorage
     /\ last'.op = "known.add" =>
          \A k \in AddKeys, w \in KnownWords :
            knownItems' = known_add(knownItems, k, w, now)
            => /\ \A t \in 0..MaxClock : known_add(knownItems', k, w, t) = knownItems'
               /\ hasKnown(knownItems, k, w)
                    => knownItems' = knownItems /\ knownStorage' = knownStorage]_vars

C9_Witness ==
  /\ last.op = "learn.add" /\ last.case = "new"
  /\ Len(learnItems) = 2 /\ learnItems[2].addedAt = T(now) /\ now > 0

\* C10: on a ToLearn store without (k, w), add(k, w) followed by remove(k, w)
\* gives back the same records in the same order, and remove of an absent pair
\* leaves the records unchanged.
C10_AddRemoveRoundTrip ==
  [][/\ last'.op = "learn.add" =>
          \A k \in AddKeys, w \in AddWords :
            (~hasItem(learnItems, k, w) /\ learnItems' = learn_add(learnItems, k, w, now))
            => learn_remove(learnItems', k, w) = learnItems
     /\ last'.op = "learn.remove" =>
          \A k \in AddKeys, w \in AddWords :
            (~hasItem(learnItems, k, w) /\ learnItems' = learn_remove(learnItems, k, w))
            => learnItems' = learnItems]_vars

C10_Witness ==
  /\ last.op = "learn.add" /\ last.case = "new"
  /\ Len(learnItems) = 2 /\ learnItems[2].word = wCatU
  /\ learn_remove(learnItems, k1, wCatPad) = <<learnItems[1]>>

\* C11: membership and removal compare the word trimmed and lower-cased and
\* the topicKey exactly: after add(k, w) every spelling of w is reported by
\* has under k while has under any other key is as before; after remove(k, w)
\* no spelling of w is reported under k and every other record is still there.
C11_NormalizedIdentity ==
  [][LET same(w, v) == toLowerCase(trim(w)) = toLowerCase(trim(v))
         keys == {k1, k2, "Birds", "animals"}
     IN /\ last'.op = "learn.add" =>
             \A k \in AddKeys, w \in AddWords :
               learnItems' = learn_add(learnItems, k, w, now)
               => /\ \A v \in Spellings : same(v, w) => hasItem(learnItems', k, v)
                  /\ \A k0 \in keys \ {k}, v \in Spellings :
                       hasItem(learnItems', k0, v) = hasItem(learnItems, k0, v)
        /\ last'.op = "known.add" =>
             \A k \in AddKeys, w \in KnownWords :
               knownItems' = known_add(knownItems, k, w, now)
               => /\ \A v \in Spellings : same(v, w) => hasKnown(knownItems', k, v)
                  /\ \A k0 \in keys \ {k}, v \in Spellings :
                       hasKnown(knownItems', k0, v) = hasKnown(knownItems, k0, v)
        /\ last'.op = "learn.remove" =>
             \A k \in AddKeys, w \in AddWords :
               learnItems' = learn_remove(learnItems, k, w)
               => /\ \A v \in Spellings : same(v, w) => ~hasItem(learnItems', k, v)
                  /\ \A i \in 1..Len(learnItems) :
                       (learnItems[i].topicId # k \/ ~same(learnItems[i].word, w))
                       => learnItems[i] \in Range(learnItems')]_vars

\* add(k1, "dog") next to (Birds, dog), then remove(k1, " Cat ")-like spellings
C11_Witness ==
  /\ last.op = "learn.remove" /\ last.case = "present"
  /\ learnItems = <<[topicId |-> "Birds", word |-> wDog, addedAt |-> T(0)]>>
  /\ now > 0

\* C12: replaceAll(records) drops the previous contents: afterwards the store
\* holds, in input order, one record for each candidate that is an object with
\* a string topicId and a string word; it has the candidate's topicId, its word
\* trimmed, its addedAt when it has one and the current time otherwise.
C12_ReplaceAllExact ==
  [][LET ok(e) == e.obj /\ e.topicId.t = "str" /\ e.word.t = "str"
         kept(arr) == {j \in 1..Len(arr) : ok(arr[j])}
         nth(arr, i) == CHOOSE j \in kept(arr) :
                          Cardinality({j2 \in kept(arr) : j2 <= j}) = i
         holds(items, arr, t) ==
           /\ Len(items) = Cardinality(kept(arr))
           /\ \A i \in 1..Len(items) :
                LET e == arr[nth(arr, i)]
                IN /\ items[i].topicId = e.topicId.v
                   /\ items[i].word = trim(e.word.v)
                   /\ items[i].addedAt = IF e.addedAt.t \in {"absent", "null"}
                                         THEN T(t) ELSE e.addedAt
     IN last'.op = "import" =>
          \A doc \in ImportDocs \cup {exportDoc(learnItems, knownItems)} :
            (/\ doc.kind = last'.kind /\ doc.learn.t = last'.learn
             /\ doc.known.t = last'.known /\ onFileSelected(doc))
            => /\ doc.kind = "array" => holds(learnItems', doc.arr, now)
               /\ (doc.kind = "object" /\ doc.learn.t = "array")
                    => holds(learnItems', doc.learn.v, now)
               /\ (doc.kind = "object" /\ doc.known.t = "array"
                     /\ (storageWritable \/ doc.learn.t # "array"))
                    => holds(knownItems', doc.known.v, now)]_vars

\* [" Cat " without addedAt, "abc", dog with addedAt 7] imported at time 1
C12_Witness ==
  /\ last.op = "import" /\ last.kind = "array" /\ now = 1
  /\ learnItems = << [topicId |-> k1, word |-> wCatU, addedAt |-> T(1)],
                     [topicId |-> k1, word |-> wDog, addedAt |-> NumT(7)] >>

\* C13: loading never fails. A store loaded from a document that is missing,
\* unparsable or not an array is empty; from an array it holds, in order, one
\* record per element that is an object with a string word: its key is the
\* topicId field when that is a string, else derived from the topic field when
\* that is a string (the name, or the key or id of the catalog topic of that
\* name), else "imported"; its addedAt is the field when that is a string and
\* the time of the load otherwise.
C13_LoadMigrates ==
  LET ok(e) == e.obj /\ e.word.t = "str"
      kept(arr) == {j \in 1..Len(arr) : ok(arr[j])}
      nth(arr, i) == CHOOSE j \in kept(arr) :
                       Cardinality({j2 \in kept(arr) : j2 <= j}) = i
      fromTopic(name) ==
        {name} \cup {m.topicKey : m \in {x \in Range(getTopicList) : x.name = name}}
               \cup {m.id : m \in {x \in Range(getTopicList) : x.name = name}}
      loaded(raw, items, t) ==
        IF raw.kind # "array" THEN items = <<>>
        ELSE /\ Len(items) = Cardinality(kept(raw.arr))
             /\ \A i \in 1..Len(items) :
                  LET e == raw.arr[nth(raw.arr, i)]
                  IN /\ items[i].word = trim(e.word.v)
                     /\ IF e.topicId.t = "str" THEN items[i].topicId = e.topicId.v
                        ELSE IF e.topic.t = "str"
                             THEN items[i].topicId \in fromTopic(e.topic.v)
                             ELSE items[i].topicId = "imported"
                     /\ items[i].addedAt = IF e.addedAt.t = "str" THEN e.addedAt ELSE T(t)
  IN last.op = "load" =>
       \E t \in 0..now : /\ loaded(learnStorage, learnItems, t)
                          /\ loaded(knownStorage, knownItems, t)

\* a reload at time 1 of ["abc", {word: 5}, {word: "tea", addedAt: 7},
\* {topic: "Animals", word: "Cat"}] next to a Known document that is no array
C13_Witness ==
  /\ last.op = "load" /\ now = 1
  /\ learnStorage = ArrDoc(<<NonObject, eNoWord, eBare, eLegacyAnimals>>)
  /\ learnItems = << [topicId |-> "imported", word |-> wTea, addedAt |-> T(1)],
                     [topicId |-> k1, word |-> wCatU, addedAt |-> T(1)] >>
  /\ knownStorage.kind \in {"badtext", "num", "object"} /\ knownItems = <<>>

\* C14: when the filter is applied with the flag off (and when a topic is
\* opened) the active word list is the topic's catalog sequence; with the flag
\* on it is the subsequence, in catalog order, of the entries whose word
\* (trimmed, lower-cased) is in neither Known nor ToLearn under the topicKey,
\* and the count shown for the filter is its length.
C14_OnlyNewFilter ==
  [][LET full == getTopicData(topicKey').vocabs
         taken(items, w) ==
           \E r \in Range(items) :
             r.topicId = topicKey' /\ toLowerCase(trim(r.word)) = toLowerCase(trim(w))
         fresh == {j \in 1..Len(full) :
                     ~taken(learnItems, full[j].word) /\ ~taken(knownItems, full[j].word)}
         nth(i) == CHOOSE j \in fresh : Cardinality({j2 \in fresh : j2 <= j}) = i
     IN /\ (last'.op = "startTopic" /\ last'.case = "mounted") => currentVocabs' = full
        /\ (last'.op = "applyOnlyNewFilter" /\ last'.case = "off") => currentVocabs' = full
        /\ (last'.op = "applyOnlyNewFilter" /\ last'.case = "on")
             => /\ Len(currentVocabs') = Cardinality(fresh)
                /\ \A i \in 1..Len(currentVocabs') : currentVocabs'[i] = full[nth(i)]
                /\ filteredCount' = Cardinality(fresh)]_vars

\* words [tea, Cat, dog] of two topics with (t2/food, tea) in Known and
\* (t1/animals, dog) in ToLearn: the filter on t1/animals gives [Cat]
C14_Witness ==
  /\ last.op = "applyOnlyNewFilter" /\ last.case = "on" /\ topicKey = k1
  /\ hasItem(learnItems, k1, wDog) /\ hasKnown(knownItems, k2, wTea)
  /\ currentVocabs = <<[word |-> wCatU]>>

\* C15: on the topic list a topic is shown as fully known exactly when it has
\* at least one word and every one of its words is in Known under its
\* topicKey, compared trimmed and lower-cased.
C15_FullyKnown ==
  route = "topics" =>
    \A t \in Range(getTopicList) :
      LET words == getTopicData(t.topicKey).vocabs
          known(w) == \E r \in Range(knownItems) :
                        r.topicId = t.topicKey
                          /\ toLowerCase(trim(r.word)) = toLowerCase(trim(w))
      IN rowFullyKnown(t) <=> (words # <<>> /\ \A v \in Range(words) : known(v.word))

\* C16: when add of a new pair, remove, clear or replaceAll returns normally,
\* the persisted document of the store is the in-memory list, record by
\* record; and whenever a step changes a persisted document, the new document
\* is the in-memory list after that step (storage is never ahead of memory).
C16_PersistedEqualsMemory ==
  [][LET synced(doc, items) ==
           /\ doc.kind = "array" /\ Len(doc.arr) = Len(items)
           /\ \A i \in 1..Len(items) :
                /\ doc.arr[i].obj
                /\ doc.arr[i].topicId = S(items[i].topicId)
                /\ doc.arr[i].word = W(items[i].word)
                /\ doc.arr[i].addedAt = items[i].addedAt
         learnMutated ==
           \/ last'.op = "learn.add" /\ last'.case = "new"
           \/ last'.op \in {"learn.remove", "learn.clear"}
           \/ /\ last'.op = "import" /\ last'.case = "imported"
              /\ last'.kind = "array" \/ last'.learn = "array"
         knownMutated ==
           \/ last'.op = "known.add" /\ last'.case = "new"
           \/ /\ last'.op = "import" /\ last'.case = "imported"
              /\ last'.kind = "object" /\ last'.known = "array"
     IN /\ (storageWritable /\ learnMutated) => synced(learnStorage', learnItems')
        /\ (storageWritable /\ knownMutated) => synced(knownStorage', knownItems')
        /\ learnStorage' # learnStorage => synced(learnStorage', learnItems')
        /\ knownStorage' # knownStorage => synced(knownStorage', knownItems')]_vars

C16_Witness ==
  /\ last.op = "learn.remove" /\ last.case = "present" /\ storageWritable
  /\ Len(learnItems) = 1 /\ learnStorage.kind = "array" /\ Len(learnStorage.arr) = 1
  /\ learnStorage.arr[1].word = W(learnItems[1].word)

\* C17: when localStorage rejects the write, "I already know this word" still
\* completes: the word is in Known, it is no longer in ToLearn, and the next
\* card is shown (or, after the last card, the topic list).
C17_WriteFailureSwallowed ==
  [][last'.op = "markKnown"
     => /\ last'.case = "done"
        /\ hasKnown(knownItems', topicKey, currentWord.word)
        /\ ~hasItem(learnItems', topicKey, currentWord.word)
        /\ IF hasNext THEN currentIndex' = currentIndex + 1 ELSE route' = "topics"]_vars

\* C18: the confirmed "Clear data" action leaves both Known and ToLearn empty,
\* in memory and in localStorage.
C18_ClearAllData ==
  [][last'.op = "clearAllData"
     => /\ learnItems' = <<>> /\ learnStorage'.arr = <<>>
        /\ knownItems' = <<>> /\ knownStorage'.arr = <<>>]_vars

\* C19: a dataset document without topic, or whose vocabs is not an array, is
\* skipped: it has no entry in getTopicList, with or without a type, and
\* getTopicData of its key is absent, so no flashcard is ever mounted on it;
\* every well-formed document has its entry and its data.
C19_MalformedSkipped ==
  /\ \A i \in 1..Len(topicModules) :
       LET m == topicModules[i]
           key == m.typeId \o "/" \o m.topicSlug
           wellFormed == m.data.topic.t = "str" /\ m.data.topic.v # "" /\ m.data.vocabsIsArray
           listed(list) == \E t \in Range(list) :
                             t.topicKey = key /\ t.id = m.topicSlug /\ t.typeId = m.typeId
       IN IF wellFormed
          THEN /\ listed(getTopicList) /\ listed(topicsByType(m.typeId))
               /\ hasTopicData(key) /\ getTopicData(key) = m.data
          ELSE /\ ~listed(getTopicList) /\ ~listed(topicsByType(m.typeId))
               /\ ~hasTopicData(key)
               /\ topicKey # key /\ currentTopicId # key
  /\ (last.op = "startTopic" /\ last.case = "redirected") => route = "topics"

\* the route of the document without topic was entered and left again
C19_Witness ==
  /\ last.op = "startTopic" /\ last.case = "redirected" /\ route = "topics"
  /\ ~hasTopicData("t1/broken") /\ ~hasTopicData("t2/nolist")
  /\ Len(getTopicList) = 3 /\ Len(topicsByType("t2")) = 2

C21_VocabByWord ==
  LET same(w, v) == toLowerCase(trim(w)) = toLowerCase(trim(v))
      keys == {"t1/animals", "t2/animals", "t2/food", "t1/broken", "t2/nolist",
               "animals", "Birds", "imported"}
      docs(k) == {i \in 1..Len(topicModules) :
                    /\ topicModules[i].typeId \o "/" \o topicModules[i].topicSlug = k
                    /\ topicModules[i].data.topic.t = "str"
                    /\ topicModules[i].data.vocabsIsArray}
      right(k, w, r) ==
        IF docs(k) = {} THEN ~r.found
        ELSE LET vs == topicModules[CHOOSE i \in docs(k) : TRUE].data.vocabs
             IN IF \A i \in 1..Len(vs) : ~same(vs[i].word, w) THEN ~r.found
                ELSE /\ r.found
                     /\ \E i \in 1..Len(vs) :
                          /\ r.entry = vs[i] /\ same(vs[i].word, w)
                          /\ \A j \in 1..(i - 1) : ~same(vs[j].word, w)
  IN /\ \A k \in keys, w \in Spellings \cup {wDogU} : right(k, w, getVocabByWord(k, w))
     /\ itemShown => right(currentItem.topicId, currentItem.word, currentDisplay.vocab)

\* the review card of (t1/animals, dog) shows the catalog entry dog; in
\* t2/animals, with the entries dog and Dog, "Dog" finds the first, dog
C21_Witness ==
  /\ itemShown /\ currentItem.topicId = k1 /\ currentItem.word = wDog
  /\ currentDisplay.vocab = [found |-> TRUE, entry |-> [word |-> wDog]]
  /\ getVocabByWord("t2/animals", wDogU) = [found |-> TRUE, entry |-> [word |-> wDog]]
  /\ getVocabByWord(k1, wCatPad).entry.word = wCatU
  /\ ~getVocabByWord("animals", wCat).found

\* C22: getTopicList(typeId) is the sequence of the indexed topics of that type
\* in indexing order (empty for an unknown type), getTopicList() that of all
\* indexed topics in indexing order, and getTypeList() lists every type once,
\* in the order in which the types are first seen.
C22_ListOrder ==
  LET good == {i \in 1..Len(topicModules) :
                 /\ topicModules[i].topicSlug # "_meta"
                 /\ topicModules[i].data.topic.t = "str"
                 /\ topicModules[i].data.vocabsIsArray}
      nth(set, n) == CHOOSE i \in set : Cardinality({j \in set : j <= i}) = n
      lists(list, set) ==
        /\ Len(list) = Cardinality(set)
        /\ \A n \in 1..Len(list) :
             LET m == topicModules[nth(set, n)]
             IN list[n] = [id |-> m.topicSlug, name |-> m.data.topic.v,
                           typeId |-> m.typeId,
                           topicKey |-> m.typeId \o "/" \o m.topicSlug]
      ofType(ty) == {i \in good : topicModules[i].typeId = ty}
      seenAt(ty) == CHOOSE i \in 1..Len(topicModules) :
                      /\ topicModules[i].typeId = ty /\ topicModules[i].topicSlug # "_meta"
                      /\ \A j \in 1..(i - 1) :
                           ~(topicModules[j].typeId = ty /\ topicModules[j].topicSlug # "_meta")
  IN /\ \A ty \in {"t1", "t2", "t3", "t4"} : lists(topicsByType(ty), ofType(ty))
     /\ lists(getTopicList, good)
     /\ {getTypeList[n].id : n \in 1..Len(getTypeList)}
          = {topicModules[i].typeId : i \in {j \in 1..Len(topicModules) :
                                               topicModules[j].topicSlug # "_meta"}}
     /\ \A a, b \in 1..Len(getTypeList) :
          a < b => seenAt(getTypeList[a].id) < seenAt(getTypeList[b].id)
     /\ route = "flashcard" => \E n \in 1..Len(getTopicList) : getTopicList[n].topicKey = topicKey

\* the flashcards of t2/food, the third of the three listed topics, are open
C22_Witness ==
  /\ route = "flashcard" /\ topicKey = k2 /\ getTopicList[3].topicKey = k2
  /\ [n \in 1..Len(getTopicList) |-> getTopicList[n].topicKey]
       = <<"t1/animals", "t2/animals", "t2/food">>
  /\ [n \in 1..Len(topicsByType("t2")) |-> topicsByType("t2")[n].id] = <<"animals", "food">>
  /\ topicsByType("t3") = <<>> /\ topicsByType("t4") = <<>>
  /\ getTypeList = << [id |-> "t1", name |-> "Basics"], [id |-> "t2", name |-> "T2"],
                      [id |-> "t3", name |-> "T3"] >>

\* C23: for every topic of getTopicList() the topic list shows as total the
\* number of catalog entries of the topic, as known-count the number of Known
\* records with the topic's topicKey, and as fully-known flag the fully-known
\* predicate of the topic's topicKey, for the current stores.
C23_TopicRowCounts ==
  route = "topics" =>
    \A n \in 1..Len(getTopicList) :
      LET t == getTopicList[n]
      IN /\ rowTotal(t) = Len(getTopicData(t.topicKey).vocabs)
         /\ rowKnownCount(t)
              = Cardinality({i \in 1..Len(knownItems) : knownItems[i].topicId = t.topicKey})
         /\ rowFullyKnown(t) = isTopicFullyKnown(t.topicKey)

C26_KnownCountWithinTotal ==
  \A n \in 1..Len(getTopicList) :
    LET t == getTopicList[n]
    IN /\ Cardinality({i \in 1..Len(knownItems) : knownItems[i].topicId = t.topicKey})
            <= Len(getTopicData(t.topicKey).vocabs)
       /\ rowNotKnown(t) >= 0

\* C27: on the review screen, whenever ToLearn is not empty the current index
\* is within it, so a current item exists.
C27_ReviewIndexInRange ==
  (route = "review" /\ Len(learnItems) > 0)
    => (0 <= reviewIndex /\ reviewIndex < Len(learnItems))

\* C28: in the vocab store currentIndex is 0 when the active word list is
\* empty and otherwise lies within the list, and after reset() the active
\* word list is empty.
C28_VocabIndexAndReset ==
  /\ IF Len(currentVocabs) = 0 THEN currentIndex = 0
     ELSE 0 <= currentIndex /\ currentIndex < Len(currentVocabs)
  /\ last.op = "vocab.reset" => Len(currentVocabs) = 0

\* C29: the image URL shown belongs to the current word: it is '' for an
\* empty word and otherwise the word's placeholder, its cached URL or its
\* resolved URL; a lookup that completes for an earlier word does not replace
\* the URL of the current word.
C29_ImageOfCurrentWord ==
  IF trim(watchedWord) = <<>> THEN imageUrl = NoUrl
  ELSE \/ imageUrl = fallbackUrl(watchedWord)
       \/ cacheHas(cacheKey(watchedWord)) /\ imageUrl = cacheGet(cacheKey(watchedWord))
       \/ imageUrl = thumbnailOf(wikiTitle(watchedWord))

\* C30: loading the page again reproduces the stores: the load-time migration
\* of the persisted documents yields the records (topicKey, word, addedAt)
\* the stores held before, in the same order.
C30_RestartReproduces ==
  [][Reload => learnItems' = learnItems /\ knownItems' = knownItems]_vars

====
